---- MODULE Spec2Model ----
(***************************************************************************)
(* The PUT /api/v1/clients/:id handler of src/server.js: the reassignment  *)
(* of client priorities inside the three swimlanes of the board.           *)
(*                                                                         *)
(* Numbers.  A JSON body may carry any number as "priority", fractions     *)
(* included, and the handler writes it to the table unrounded.  A number x *)
(* is therefore represented by the integer 2x (its count of halves):       *)
(* Num(k) is the integer k and Half(k) is k + 0.5.  Order, Math.min and    *)
(* Math.max commute with this scaling.                                     *)
(***************************************************************************)
EXTENDS Integers, Sequences, FiniteSets, TLC

\* Number of rows of the clients table.
NumClients == 3
\* How far below 1 and above NumClients a requested priority reaches.
Overshoot == 2
\* Number of requests the server holds at a time.
NumCalls == 2

VARIABLES
    db,       \* the clients table: id -> [status, priority]
    clients,  \* the snapshot the handler read at line 125
    req,      \* the request the handler serves: [param, body]
    res,      \* the response it sends: [code, message]
    waiting,  \* the number of requests at the server whose handler has not started
    calls     \* the handler calls that have started and not ended: [req, clients, us, k]

vars == <<db, clients, req, res, waiting, calls>>

Ids == 1..NumClients

Statuses == {"backlog", "in-progress", "complete"}

\* The JS number k, and the JS number k + 0.5.
Num(k) == k + k
Half(k) == k + k + 1

Max(a, b) == IF a >= b THEN a ELSE b
Min(a, b) == IF a <= b THEN a ELSE b

----------------------------------------------------------------------------
(* Requests *)

\* The value of parseInt(s, 10): a number or NaN.
NaN == [nan |-> TRUE, val |-> 0]

parseInt(s) ==
    IF \E n \in 0..(NumClients + 1) : ToString(n) = s
    THEN [nan |-> FALSE, val |-> CHOOSE n \in 0..(NumClients + 1) : ToString(n) = s]
    ELSE NaN

NumberIsNaN(x) == x.nan

\* Path parameters: the ids of the rows, one id of no row, one non-numeric.
KnownParams == {ToString(i) : i \in Ids}
UnknownParams == {ToString(NumClients + 1), "abc"}

\* Bodies: an object with any of the keys "status" and "priority".
Body(S, P) ==
    {<<>>}
    \cup {[status |-> s] : s \in S}
    \cup {[priority |-> p] : p \in P}
    \cup {[status |-> s, priority |-> p] : s \in S, p \in P}

\* The priorities of the bodies are numbers, whole or fractional.  (A string
\* passes validatePriority as well; the NaN that line 149 makes of it goes to
\* SQLite, whose treatment of it is outside the source, so no body of the
\* model carries one.)
IntegerPriorities == {Num(k) : k \in (1 - Overshoot)..(NumClients + Overshoot)}
FractionalPriorities == {Half(k) : k \in 0..NumClients}
OtherStatuses == {"archived"}

\* Requests with the id of a row, a status of the enumeration or none, an
\* integer priority or none.
IntegerRequests ==
    [param : KnownParams, body : Body(Statuses, IntegerPriorities)]

AllRequests ==
    [param : KnownParams \cup UnknownParams,
     body : Body(Statuses \cup OtherStatuses,
                 IntegerPriorities \cup FractionalPriorities)]

OtherRequests == AllRequests \ IntegerRequests

----------------------------------------------------------------------------
(* validateId, validatePriority *)

validateId(cl, id) ==
    IF NumberIsNaN(id)
    THEN [valid |-> FALSE, message |-> "Invalid id provided."]
    ELSE IF id.val \notin DOMAIN cl
    THEN [valid |-> FALSE, message |-> "Invalid id provided."]
    ELSE [valid |-> TRUE, message |-> ""]

\* Number.isNaN(priority): true of the number NaN alone, which no JSON text
\* denotes, so false of every priority a body carries.
PriorityIsNaN(priority) == FALSE

validatePriority(priority) ==
    IF PriorityIsNaN(priority)
    THEN [valid |-> FALSE, message |-> "Invalid priority provided."]
    ELSE [valid |-> TRUE, message |-> ""]

----------------------------------------------------------------------------
(* The handler of PUT /api/v1/clients/:id.  cl is the snapshot of line 125, *)
(* id the parsed path parameter, body the request body.                     *)

\* c.id === id
SameId(c, id) == ~NumberIsNaN(id) /\ c = id.val

\* What a variable holds when it is undefined.
Undefined == [status |-> "undefined", priority |-> 0]

\* clients.find(client => client.id === id)
Find(cl, id) ==
    IF \E c \in DOMAIN cl : SameId(c, id) THEN cl[id.val] ELSE Undefined

HasStatus(body) == "status" \in DOMAIN body
HasPriority(body) == "priority" \in DOMAIN body

\* The handler with client?.status for client.status: no exception.
ThrowsNever(client) == FALSE

\* The handler does not return after the 400 of line 121.  With client
\* undefined it ends in an exception before any write: the second send of
\* line 131, or the TypeError of client.status at line 135 or 137.
Throws(client) == client = Undefined

newStatus(body, client) ==
    IF HasStatus(body) THEN body.status ELSE client.status

targetClients(cl, id, status) ==
    {c \in DOMAIN cl : cl[c].status = status /\ ~SameId(c, id)}

\* The clamp with length for length + 1 as its upper end.
ClampToLength(priority, length) == Max(Num(1), Min(priority, Num(length)))

Clamp(priority, length) == Max(Num(1), Min(priority, Num(length + 1)))

\* The end placement at length for length + 1.
newPriorityAtLength(body, client, changed, length) ==
    IF HasPriority(body)
    THEN Max(Num(1), Min(body.priority, Num(length + 1)))
    ELSE IF changed THEN Num(length) ELSE client.priority

newPriority(body, client, changed, length) ==
    IF HasPriority(body)
    THEN Clamp(body.priority, length)
    ELSE IF changed THEN Num(length + 1) ELSE client.priority

\* The filter of line 157 without its status test.
oldClientsOfAnyStatus(cl, id, client) ==
    {c \in DOMAIN cl : ~SameId(c, id)}

oldClients(cl, id, client) ==
    {c \in DOMAIN cl : cl[c].status = client.status /\ ~SameId(c, id)}

\* The index of c in S left unsorted, in snapshot order.
UnsortedIndex(cl, S, c) == Cardinality({d \in S : d < c})

\* The index of c in S.sort((a, b) => a.priority - b.priority).  The sort is
\* stable and the snapshot lists the rows in id order.
SortedIndex(cl, S, c) ==
    Cardinality({d \in S : \/ cl[d].priority < cl[c].priority
                          \/ (cl[d].priority = cl[c].priority /\ d < c)})

\* The rank written to the member at index idx of the old swimlane.
OldRank(idx) == Num(idx + 1)

\* The shift of line 168 with > for >=.
TargetRankPast(idx, priority) ==
    LET p == Num(idx + 1)
    IN  IF p > priority THEN p + Num(1) ELSE p

\* The rank written to the member at index idx of the target swimlane.
TargetRank(idx, priority) ==
    LET p == Num(idx + 1)
    IN  IF p >= priority THEN p + Num(1) ELSE p

\* The handler without lines 156-162.
ReorderOldSkipped(d, cl, changed, old) == d

\* Lines 156-162, on the table d.
ReorderOld(d, cl, changed, old) ==
    [c \in DOMAIN d |->
        IF changed /\ c \in old
        THEN [d[c] EXCEPT !.priority = OldRank(SortedIndex(cl, old, c))]
        ELSE d[c]]

\* Lines 165-170, on the table d.
InsertTarget(d, cl, target, priority) ==
    [c \in DOMAIN d |->
        IF c \in target
        THEN [d[c] EXCEPT !.priority = TargetRank(SortedIndex(cl, target, c), priority)]
        ELSE d[c]]

\* Line 173, on the table d.
UpdateClient(d, id, status, priority) ==
    [c \in DOMAIN d |->
        IF SameId(c, id)
        THEN [status |-> status, priority |-> priority]
        ELSE d[c]]

Response(code, message) == [code |-> code, message |-> message]

\* The response of the handler.  The first response sent is the one the
\* caller receives: the 400 of line 121 where the id is invalid.
Respond(v, w, none) ==
    IF ~v.valid THEN Response(400, v.message)
    ELSE IF none THEN Response(200, "")
    ELSE IF ~w.valid THEN Response(400, w.message)
    ELSE Response(200, "")

\* The handler ends before its writes: by the exception, at the return of
\* line 131, at the return of line 146.
Early(body, client) ==
    \/ Throws(client)
    \/ ~HasStatus(body) /\ ~HasPriority(body)
    \/ HasPriority(body) /\ ~validatePriority(body.priority).valid

\* The table after the handler, whose locals are its parameters.
Written(cl, id, body, client, status, target, priority, old) ==
    IF Early(body, client)
    THEN cl
    ELSE UpdateClient(
             InsertTarget(ReorderOld(cl, cl, status # client.status, old),
                          cl, target, priority),
             id, status, priority)

----------------------------------------------------------------------------
(* Tables *)

\* Within every swimlane of size n the priorities are exactly 1..n.
LaneOf(t, s) == {c \in DOMAIN t : t[c].status = s}

Dense(t) ==
    \A s \in Statuses :
        {t[c].priority : c \in LaneOf(t, s)}
            = {Num(k) : k \in 1..Cardinality(LaneOf(t, s))}

DenseTables ==
    {t \in [Ids -> [status : Statuses, priority : {Num(k) : k \in Ids}]] : Dense(t)}

\* No request is being served: the server waits in app.listen.
NoRequest == [param |-> "", body |-> <<>>]
NoResponse == Response(0, "")
NoSnapshot == <<>>

Init ==
    /\ db \in DenseTables
    /\ clients = NoSnapshot
    /\ req = NoRequest
    /\ res = NoResponse
    /\ waiting = 0
    /\ calls = {}

\* The handler as one step: it runs from line 118 to its last line with no
\* other handler in between.
Put(r) ==
    \E id \in {parseInt(r.param)} :
    \E client \in {Find(db, id)} :
    \E status \in {newStatus(r.body, client)} :
    \E target \in {targetClients(db, id, status)} :
    \E priority \in {newPriority(r.body, client, status # client.status,
                                 Cardinality(target))} :
    \E old \in {oldClients(db, id, client)} :
        /\ clients' = db
        /\ req' = r
        /\ db' = Written(db, id, r.body, client, status, target, priority, old)
        /\ res' = Respond(validateId(db, id),
                          IF HasPriority(r.body)
                          THEN validatePriority(r.body.priority)
                          ELSE [valid |-> TRUE, message |-> ""],
                          ~HasStatus(r.body) /\ ~HasPriority(r.body))
        /\ UNCHANGED <<waiting, calls>>

\* No handler is running: the server takes a request.
Idle == req = NoRequest

\* A request with the id of a row, a status of the enumeration or none, and
\* an integer priority or none.
PutInteger == Idle /\ \E r \in IntegerRequests : Put(r)

\* Any other request: an id of no row, a status outside the enumeration, a
\* fractional priority.
PutOther == Idle /\ \E r \in OtherRequests : Put(r)

\* The handler has returned: its request, response and snapshot are gone and
\* the server takes the next request.
Return ==
    /\ ~Idle
    /\ req' = NoRequest
    /\ res' = NoResponse
    /\ clients' = NoSnapshot
    /\ UNCHANGED <<db, waiting, calls>>

Next == PutInteger \/ Return

Spec == Init /\ [][Next]_vars

NextAny == PutInteger \/ PutOther \/ Return

SpecAny == Init /\ [][NextAny]_vars

----------------------------------------------------------------------------
(* The handler statement by statement, several requests at the server *)

\* S.sort((a, b) => a.priority - b.priority) as a sequence of ids.
Sorted(cl, S) ==
    [i \in 1..Cardinality(S) |-> CHOOSE c \in S : SortedIndex(cl, S, c) = i - 1]

\* An update statement; status "" where the statement sets the priority alone.
Update(id, status, priority) == [id |-> id, status |-> status, priority |-> priority]

\* The update statements the handler runs over the snapshot cl, in order:
\* lines 160, 169 and 173.
Updates(cl, r) ==
    LET id == parseInt(r.param)
        client == Find(cl, id)
        status == newStatus(r.body, client)
        changed == status # client.status
        target == targetClients(cl, id, status)
        priority == newPriority(r.body, client, changed, Cardinality(target))
        old == oldClients(cl, id, client)
    IN  IF Early(r.body, client)
        THEN <<>>
        ELSE (IF changed
              THEN [i \in 1..Cardinality(old) |->
                       Update(Sorted(cl, old)[i], "", OldRank(i - 1))]
              ELSE <<>>)
             \o [i \in 1..Cardinality(target) |->
                    Update(Sorted(cl, target)[i], "", TargetRank(i - 1, priority))]
             \o <<Update(id.val, status, priority)>>

\* db.prepare('update clients set ... where id = ?').run(...) on the table d.
Run(d, u) ==
    [c \in DOMAIN d |->
        IF c = u.id
        THEN [status |-> IF u.status = "" THEN d[c].status ELSE u.status,
              priority |-> u.priority]
        ELSE d[c]]

\* A handler that awaits its statements: the event loop interleaves calls.
RunnableAlways(others) == TRUE

\* The handler holds no await and better-sqlite3 answers synchronously: a
\* call is on the stack from its first line to its last, and the event loop
\* takes a step of a call only with no other call (others) on the stack.
Runnable(others) == others = {}

\* The call of the handler for request r, started on the table d: its
\* snapshot, the update statements (us) that follow from the locals resolved
\* over it, and the number k of them that are run.
Call(d, r) == [req |-> r, clients |-> d, us |-> Updates(d, r), k |-> 0]

\* A request reaches the server.
Arrive ==
    /\ waiting + Cardinality(calls) < NumCalls
    /\ waiting' = waiting + 1
    /\ UNCHANGED <<db, clients, req, res, calls>>

\* Lines 118-153: a call starts, reads its snapshot and resolves its locals.
Begin(r) ==
    /\ waiting > 0
    /\ Runnable(calls)
    /\ waiting' = waiting - 1
    /\ calls' = calls \cup {Call(db, r)}
    /\ UNCHANGED <<db, clients, req, res>>

\* One update statement of a call.
Write(c) ==
    /\ Runnable(calls \ {c})
    /\ c.k < Len(c.us)
    /\ db' = Run(db, c.us[c.k + 1])
    /\ calls' = (calls \ {c}) \cup {[c EXCEPT !.k = @ + 1]}
    /\ UNCHANGED <<clients, req, res, waiting>>

\* Lines 176-177 (or the early end): a call sends its response and ends.
Send(c) ==
    /\ Runnable(calls \ {c})
    /\ c.k = Len(c.us)
    /\ calls' = calls \ {c}
    /\ UNCHANGED <<db, clients, req, res, waiting>>

NextSteps ==
    \/ Arrive
    \/ \E r \in IntegerRequests : Begin(r)
    \/ \E c \in calls : Write(c)
    \/ \E c \in calls : Send(c)

SpecSteps == Init /\ [][NextSteps]_vars

----------------------------------------------------------------------------
(* The last request served: clients is the table before it, db the table   *)
(* after it.                                                               *)

\* The row the request names, where it names one.
Target == parseInt(req.param).val

\* The destination swimlane of the request.
Destination ==
    IF HasStatus(req.body) THEN req.body.status ELSE clients[Target].status

\* The members of swimlane s before the request, the target left out.
Others(s) == {c \in Ids : c # Target /\ clients[c].status = s}

PositiveInteger(x) == x % 2 = 0 /\ x >= Num(1)

\* C1: after every request with the id of a row, a status of the enumeration
\* or none and an integer priority or none, from a table whose swimlanes
\* all hold the priorities 1..n, every swimlane again holds exactly 1..n.
C1_DensePreserved == Dense(db)

\* A client has left a swimlane of three from its top for the top of another.
C1_Witness ==
    /\ ~Idle
    /\ Dense(clients)
    /\ clients[Target].priority = Num(1)
    /\ Cardinality(Others(clients[Target].status)) = 2
    /\ db[Target].status # clients[Target].status
    /\ db[Target].priority = Num(1)
    /\ Cardinality(Others(Destination)) = 0

\* C2: a request whose status is outside the enumeration is refused with an
\* error and changes no row, so every status stays inside the enumeration.
C2_InvalidStatusRefused ==
    /\ (~Idle /\ req.param \in KnownParams /\ HasStatus(req.body)
            /\ req.body.status \notin Statuses)
        => (res.code = 400 /\ db = clients)
    /\ \A c \in Ids : db[c].status \in Statuses

\* C3: a request whose priority is not a positive integer is rejected with
\* the priority error and changes no row.
C3_InvalidPriorityRejected ==
    (~Idle /\ req.param \in KnownParams /\ HasPriority(req.body)
        /\ ~PositiveInteger(req.body.priority))
    => (res = Response(400, "Invalid priority provided.") /\ db = clients)

C5_Idempotent ==
    (~Idle /\ HasStatus(req.body) /\ HasPriority(req.body)
        /\ req.body.status = clients[Target].status
        /\ req.body.priority = clients[Target].priority)
    => db = clients

\* The middle client of a swimlane of three is asked to go where it is.
C5_Witness ==
    /\ ~Idle
    /\ HasStatus(req.body) /\ HasPriority(req.body)
    /\ req.body.status = clients[Target].status
    /\ req.body.priority = clients[Target].priority
    /\ clients[Target].priority = Num(2)
    /\ Cardinality(Others(Destination)) = 2
    /\ db = clients

\* C6: a request that changes the status and carries no priority puts the
\* target at the end of the destination swimlane, leaves the members of the
\* destination as they are, and moves up by one exactly the members of the
\* source swimlane that ranked below the target.
C6_MoveToEnd ==
    (~Idle /\ HasStatus(req.body) /\ ~HasPriority(req.body)
        /\ req.body.status # clients[Target].status)
    => /\ db[Target] = [status |-> req.body.status,
                        priority |-> Num(Cardinality(Others(Destination)) + 1)]
       /\ \A c \in Others(Destination) : db[c] = clients[c]
       /\ \A c \in Others(clients[Target].status) :
             /\ db[c].status = clients[c].status
             /\ db[c].priority =
                    IF clients[c].priority > clients[Target].priority
                    THEN clients[c].priority - Num(1)
                    ELSE clients[c].priority

\* The top client of a swimlane of two goes behind the one member of another.
C6_Witness ==
    /\ ~Idle
    /\ HasStatus(req.body) /\ ~HasPriority(req.body)
    /\ req.body.status # clients[Target].status
    /\ clients[Target].priority = Num(1)
    /\ Cardinality(Others(clients[Target].status)) = 1
    /\ Cardinality(Others(Destination)) = 1
    /\ db[Target].priority = Num(2)
    /\ \A c \in Others(clients[Target].status) : db[c].priority = Num(1)

\* The request went through to its writes.
Moved == ~Idle /\ res.code = 200 /\ (HasStatus(req.body) \/ HasPriority(req.body))

\* C7 as stated: the members of the destination swimlane end at their
\* current priority, plus one where that priority is at or past the
\* priority the target ends at.
C7_ShiftOfCurrentPriority ==
    Moved
    => \A c \in Others(Destination) :
           db[c].priority =
               IF clients[c].priority >= db[Target].priority
               THEN clients[c].priority + Num(1)
               ELSE clients[c].priority

\* The rank of c among the members of the destination, the target left out.
RankInDestination(c) ==
    Num(1 + Cardinality({d \in Others(Destination) :
                            clients[d].priority < clients[c].priority}))

\* C7 as amended: the members of the destination swimlane end at their rank
\* among themselves, plus one where that rank is at or past the priority the
\* target ends at.
C7_ShiftOfRank ==
    Moved
    => \A c \in Others(Destination) :
           db[c].priority =
               IF RankInDestination(c) >= db[Target].priority
               THEN RankInDestination(c) + Num(1)
               ELSE RankInDestination(c)

\* The top client of a swimlane of three goes to its end: the two others
\* move up, which no shift of their current priorities gives.
C7_Witness ==
    /\ Moved
    /\ Destination = clients[Target].status
    /\ clients[Target].priority = Num(1)
    /\ db[Target].priority = Num(3)
    /\ Cardinality(Others(Destination)) = 2
    /\ \A c \in Others(Destination) : db[c].priority = clients[c].priority - Num(1)

C9_Frame ==
    ~Idle
    => LET id == parseInt(req.param)
           origin == Find(clients, id).status
           destination == IF HasStatus(req.body) THEN req.body.status ELSE origin
       IN  /\ DOMAIN db = DOMAIN clients
           /\ \A c \in DOMAIN clients :
                 /\ ~SameId(c, id) => db[c].status = clients[c].status
                 /\ clients[c].status \notin {origin, destination}
                        => db[c].priority = clients[c].priority

\* A client changes swimlane and shifts the destination while a client of
\* the third swimlane stays as it is.
C9_Witness ==
    /\ Moved
    /\ req.param \in KnownParams
    /\ Destination # clients[Target].status
    /\ \E c \in Others(Destination) : db[c].priority # clients[c].priority
    /\ \E c \in Ids : /\ clients[c].status \notin {clients[Target].status, Destination}
                      /\ db[c] = clients[c]

RECURSIVE RunAll(_, _)
\* The table d after the update statements us, in order.
RunAll(d, us) == IF us = <<>> THEN d ELSE RunAll(Run(d, Head(us)), Tail(us))

\* The table the handler as one step leaves, from the table cl.
AsOneStep(cl, r) ==
    LET id == parseInt(r.param)
        client == Find(cl, id)
        status == newStatus(r.body, client)
        target == targetClients(cl, id, status)
        priority == newPriority(r.body, client, status # client.status,
                                Cardinality(target))
    IN  Written(cl, id, r.body, client, status, target, priority,
                oldClients(cl, id, client))

\* C10: with several requests at the server, between the snapshot read of a
\* call and its last write no other call reads or writes: no other call is
\* on the stack, the table is the snapshot with the writes of the call so
\* far and nothing else, and after its last write the table is what the
\* handler run alone on its snapshot leaves.
C10_RunToCompletion ==
    \A c \in calls :
        /\ calls = {c}
        /\ db = RunAll(c.clients, SubSeq(c.us, 1, c.k))
        /\ c.k = Len(c.us) => db = AsOneStep(c.clients, c.req)

\* A call is between two of its writes, the table neither its snapshot nor
\* its result, while another request waits at the server.
C10_Witness ==
    \E c \in calls :
        /\ c.k > 0
        /\ c.k < Len(c.us)
        /\ db # c.clients
        /\ db # AsOneStep(c.clients, c.req)
        /\ waiting > 0

====
